---- MODULE Spec2Model ----
(***************************************************************************)
(* Model of rot2prog/simulate.py: the ROT2ProgSim controller simulator.    *)
(*                                                                         *)
(* One session object: the constructor opens the serial port and starts a  *)
(* daemon thread running _run; the caller may call stop() at any time.     *)
(*                                                                         *)
(* Angles.  Every value the code stores in _az/_el is float(round(x, 1)),  *)
(* so az and el are kept as integers counting tenths of a degree.  The     *)
(* intermediate value H / ppd - 360.0 is kept in hundredths, which is      *)
(* exact for ppd in {1, 2, 4} (quarters of a degree are exact doubles, so  *)
(* Python's round() sees true ties and rounds them half-to-even).          *)
(* Bytes are integers 0..255; characters of Python strings are one-char    *)
(* TLA+ strings.                                                           *)
(***************************************************************************)
EXTENDS Integers, Sequences, FiniteSets, TLC

VARIABLES
    pc,                 \* where the session is: see PcValues
    ser,                \* self._ser: "none" (class attribute None) or "open"
    keep_running,       \* self._keep_running
    az,                 \* self._az, in tenths of a degree
    el,                 \* self._el, in tenths of a degree
    pulses_per_degree,  \* self._pulses_per_degree
    command_packet,     \* the list returned by the last self._ser.read(13)
    response_packet,    \* what the last iteration wrote to the port (<<>> if nothing)
    nreads,             \* number of self._ser.read calls that have returned
    nwrites,            \* number of self._ser.write calls made
    sent,               \* host side: <<azimuth, elevation>> (hundredths of a degree)
                        \* the host encoded into its Set frame, <<>> if none
    last_set,           \* history: <<H, V>> carried by the last complete Set frame
                        \* that was read, <<>> if none
    prev_short,         \* history: the read before the last one returned fewer
                        \* than 13 bytes
    stop_calls,         \* history: number of calls of stop()
    stop_mark           \* history: <<nreads, nwrites>> at the first call of
                        \* stop(), <<>> before it

vars == <<pc, ser, keep_running, az, el, pulses_per_degree, command_packet,
          response_packet, nreads, nwrites, sent, last_set, prev_short,
          stop_calls, stop_mark>>

rotator == <<az, el, pulses_per_degree>>

(***************************************************************************)
(* Bounds of the model.                                                    *)
(***************************************************************************)
MaxReads == 3
MaxStops == 2

(***************************************************************************)
(* Protocol constants.                                                     *)
(***************************************************************************)
PacketLen == 13
CmdStop == 15
CmdStatus == 31
CmdSet == 47
AsciiZero == 48
RespStart == 87
RespEnd == 32
AngleOffset == 360

PcValues == {"new", "failed", "loop", "read", "stopped", "raised"}

PulsesOptions == {1, 2, 4}

(***************************************************************************)
(* Set decoding (lines 101-121).                                           *)
(***************************************************************************)

\* lines 103-108: the raw azimuth from the bytes at offsets 1..4
SetHWrongWeights(packet) ==
    ((packet[2] - AsciiZero) * 1000) + ((packet[3] - AsciiZero) * 100)
        + ((packet[4] - AsciiZero) * 100) + (packet[5] - AsciiZero)

SetH(packet) ==
    ((packet[2] - AsciiZero) * 1000) + ((packet[3] - AsciiZero) * 100)
        + ((packet[4] - AsciiZero) * 10) + (packet[5] - AsciiZero)

\* lines 109-114: the raw elevation from the bytes at offsets 6..9
SetV(packet) ==
    ((packet[7] - AsciiZero) * 1000) + ((packet[8] - AsciiZero) * 100)
        + ((packet[9] - AsciiZero) * 10) + (packet[10] - AsciiZero)

\* round(x, 1) of a float given exactly in hundredths: nearest tenth, ties to
\* the even tenth (\div floors and % is non-negative, also for negative q)
RoundTenths(q) ==
    LET t == q \div 10
        r == q % 10
    IN  IF r < 5 THEN t
        ELSE IF r > 5 THEN t + 1
        ELSE IF t % 2 = 0 THEN t ELSE t + 1

\* lines 117-121: float(round(raw / ppd - 360.0, 1)), in tenths
DecodeAngleNoOffset(raw, ppd) == RoundTenths((100 * raw) \div ppd)

DecodeAngle(raw, ppd) ==
    RoundTenths((100 * raw) \div ppd - 100 * AngleOffset)

(***************************************************************************)
(* Response encoding (lines 67-83).                                        *)
(***************************************************************************)
DigitChars == <<"0", "1", "2", "3", "4", "5", "6", "7", "8", "9">>

ValueError == -1

RECURSIVE DecDigits(_)
\* str() of a non-negative integer, as a sequence of characters
DecDigits(n) ==
    IF n < 10 THEN <<DigitChars[n + 1]>>
    ELSE Append(DecDigits(n \div 10), DigitChars[(n % 10) + 1])

Abs(n) == IF n < 0 THEN -n ELSE n

\* str(round(float(x), 1)) for x given in tenths: "[-]ddd.d"
StrFloat1(t) ==
    (IF t < 0 THEN <<"-">> ELSE <<>>)
        \o DecDigits(Abs(t) \div 10) \o <<".">> \o <<DigitChars[(Abs(t) % 10) + 1]>>

\* lines 67-68: "00000" + str(round(float(angle + 360), 1))
PaddedStr(angle) ==
    <<"0", "0", "0", "0", "0">> \o StrFloat1(angle + 10 * AngleOffset)

\* Python's s[-k]
FromEnd(s, k) == s[Len(s) + 1 - k]

\* int(c) of a one-character string: the digit's value, or ValueError
IntOfCharAscii(c) ==
    IF \E d \in 0..9 : DigitChars[d + 1] = c
    THEN AsciiZero + (CHOOSE d \in 0..9 : DigitChars[d + 1] = c)
    ELSE ValueError

IntOfChar(c) ==
    IF \E d \in 0..9 : DigitChars[d + 1] = c
    THEN CHOOSE d \in 0..9 : DigitChars[d + 1] = c
    ELSE ValueError

\* lines 72-75 / 77-80: the four digit bytes of one axis
AxisDigitsShifted(angle) ==
    LET s == PaddedStr(angle)
    IN  <<IntOfChar(FromEnd(s, 6)), IntOfChar(FromEnd(s, 5)),
          IntOfChar(FromEnd(s, 4)), IntOfChar(FromEnd(s, 3))>>

AxisDigits(angle) ==
    LET s == PaddedStr(angle)
    IN  <<IntOfChar(FromEnd(s, 5)), IntOfChar(FromEnd(s, 4)),
          IntOfChar(FromEnd(s, 3)), IntOfChar(FromEnd(s, 1))>>

\* lines 70-83: the list response_packet (an entry ValueError stands for the
\* int() call that raises while the list is being built)
ResponsePacketOneRes(a, e, ppd) ==
    <<RespStart>> \o AxisDigits(a) \o <<ppd>> \o AxisDigits(e) \o <<RespEnd>>

ResponsePacket(a, e, ppd) ==
    <<RespStart>> \o AxisDigits(a) \o <<ppd>> \o AxisDigits(e) \o <<ppd, RespEnd>>

\* line 95: bytearray(response_packet) needs every element in range(256)
CanWrite(packet) ==
    \A i \in 1..Len(packet) : packet[i] \in 0..255

(***************************************************************************)
(* What a read can return.  Complete frames are                            *)
(*   [start, H1..H4, res, V1..V4, res, K, end];                            *)
(* short reads are prefixes of them.                                       *)
(***************************************************************************)
F0000 == <<48, 48, 48, 48>>
F0360 == <<48, 51, 54, 48>>
F1441 == <<49, 52, 52, 49>>
F3600 == <<51, 54, 48, 48>>
F9999 == <<57, 57, 57, 57>>
FMinus1 == <<48, 48, 48, 47>>   \* not ASCII digits: decodes to raw -1

\* <<H field, V field>> of the frames fed to the worker
FieldPairs ==
    { <<F0360, F0360>>, <<F3600, F3600>>, <<F1441, F0000>>, <<F0000, F1441>>,
      <<F9999, F0360>>, <<F0360, F9999>>, <<FMinus1, F0360>>, <<F0360, FMinus1>> }

\* <<start, azimuth resolution, elevation resolution, end>>
OtherBytes == { <<87, 1, 1, 32>>, <<0, 255, 47, 31>> }

CommandBytes == {CmdStop, CmdStatus, CmdSet, 255}

Frame(o, hv, K) ==
    <<o[1]>> \o hv[1] \o <<o[2]>> \o hv[2] \o <<o[3], K, o[4]>>

Frames ==
    { Frame(o, hv, K) : o \in OtherBytes, hv \in FieldPairs, K \in CommandBytes }

ShortLens == {0, 12}

\* the frames a short read is a prefix of: their digit fields differ from the
\* initial angles, and they carry every command byte
TornFrames ==
    { Frame(o, <<F1441, F0000>>, K) : o \in OtherBytes, K \in CommandBytes }

ShortReads == { SubSeq(f, 1, n) : f \in TornFrames, n \in ShortLens }

Reads == Frames \cup ShortReads

\* the reads in which every complete Set frame carries ASCII digits at
\* offsets 1-4 and 6-9
AsciiReads ==
    { p \in Reads :
        (Len(p) = PacketLen /\ p[12] = CmdSet) =>
            \A i \in {2, 3, 4, 5, 7, 8, 9, 10} : p[i] \in 48..57 }

(***************************************************************************)
(* The session.                                                            *)
(***************************************************************************)
\* class attributes, lines 12-20: the object before __init__ has run
Init ==
    /\ pc = "new"
    /\ ser = "none"
    /\ keep_running = TRUE
    /\ az = 0
    /\ el = 0
    /\ pulses_per_degree = 0
    /\ command_packet = <<>>
    /\ response_packet = <<>>
    /\ nreads = 0
    /\ nwrites = 0
    /\ sent = <<>>
    /\ last_set = <<>>
    /\ prev_short = FALSE
    /\ stop_calls = 0
    /\ stop_mark = <<>>

\* __init__, lines 22-46: serial.Serial(...) either opens the port or raises to
\* the caller; only after it returned are the resolution stored and the
\* thread started
ConstructStartsAnyway(opened, ppd) ==
    /\ pc = "new"
    /\ ser' = IF opened THEN "open" ELSE ser
    /\ pulses_per_degree' = ppd
    /\ pc' = "loop"
    /\ UNCHANGED <<keep_running, az, el, command_packet, response_packet,
                   nreads, nwrites, sent, last_set,
                   prev_short, stop_calls, stop_mark>>

Construct(opened, ppd) ==
    /\ pc = "new"
    /\ IF opened
       THEN /\ ser' = "open"
            /\ pulses_per_degree' = ppd
            /\ pc' = "loop"
       ELSE /\ pc' = "failed"
            /\ UNCHANGED <<ser, pulses_per_degree>>
    /\ UNCHANGED <<keep_running, az, el, command_packet, response_packet,
                   nreads, nwrites, sent, last_set,
                   prev_short, stop_calls, stop_mark>>

\* stop(), lines 131-133
StopToggles ==
    /\ pc \in {"loop", "read", "stopped", "raised"}
    /\ stop_calls < MaxStops
    /\ keep_running' = ~keep_running
    /\ stop_calls' = stop_calls + 1
    /\ stop_mark' = IF stop_calls = 0 THEN <<nreads, nwrites>> ELSE stop_mark
    /\ UNCHANGED <<pc, ser, az, el, pulses_per_degree, command_packet,
                   response_packet, nreads, nwrites, sent, last_set, prev_short>>

Stop ==
    /\ pc \in {"loop", "read", "stopped", "raised"}
    /\ stop_calls < MaxStops
    /\ keep_running' = FALSE
    /\ stop_calls' = stop_calls + 1
    /\ stop_mark' = IF stop_calls = 0 THEN <<nreads, nwrites>> ELSE stop_mark
    /\ UNCHANGED <<pc, ser, az, el, pulses_per_degree, command_packet,
                   response_packet, nreads, nwrites, sent, last_set, prev_short>>

\* line 50: the while test, and the call of read on line 51
LoopTestIgnoresFlag ==
    /\ pc = "loop"
    /\ nreads < MaxReads
    /\ pc' = "read"
    /\ UNCHANGED <<ser, keep_running, az, el, pulses_per_degree, command_packet,
                   response_packet, nreads, nwrites, sent, last_set,
                   prev_short, stop_calls, stop_mark>>

LoopTest ==
    /\ pc = "loop"
    /\ IF keep_running
       THEN /\ nreads < MaxReads
            /\ pc' = "read"
       ELSE pc' = "stopped"
    /\ UNCHANGED <<ser, keep_running, az, el, pulses_per_degree, command_packet,
                   response_packet, nreads, nwrites, sent, last_set,
                   prev_short, stop_calls, stop_mark>>

\* line 55
IsCompleteOffByOne(packet) == Len(packet) >= PacketLen - 1

IsCompleteChecksMarker(packet) == Len(packet) = PacketLen /\ packet[1] = RespStart

IsComplete(packet) == Len(packet) = PacketLen

\* lines 60, 101, 126: the branch taken for command byte K
CommandKindSetAnswers(K) ==
    IF K \in {CmdStop, CmdStatus, CmdSet} THEN "status" ELSE "invalid"

CommandKindStopSets(K) ==
    IF K = CmdStatus THEN "status"
    ELSE IF K \in {CmdSet, CmdStop} THEN "set"
    ELSE "invalid"

CommandKindElseAnswers(K) ==
    IF K = CmdSet THEN "set" ELSE "status"

CommandKind(K) ==
    IF K \in {CmdStop, CmdStatus} THEN "status"
    ELSE IF K = CmdSet THEN "set"
    ELSE "invalid"

\* lines 60-100: Stop or Status; building the packet may raise, which ends
\* the thread (nothing in _run catches it)
Respond ==
    LET rp == ResponsePacket(az, el, pulses_per_degree)
    IN  IF CanWrite(rp)
        THEN /\ response_packet' = rp
             /\ nwrites' = nwrites + 1
             /\ pc' = "loop"
        ELSE /\ response_packet' = <<>>
             /\ nwrites' = nwrites
             /\ pc' = "raised"

\* lines 55-129: what one iteration does with the packet it read
Serve(packet) ==
    IF ~IsComplete(packet)
    THEN /\ pc' = "loop"
         /\ response_packet' = <<>>
         /\ UNCHANGED <<az, el, nwrites>>
    ELSE LET kind == CommandKind(packet[12])
         IN  IF kind = "status"
             THEN Respond /\ UNCHANGED <<az, el>>
             ELSE IF kind = "set"
             THEN /\ az' = DecodeAngle(SetH(packet), pulses_per_degree)
                  /\ el' = DecodeAngle(SetV(packet), pulses_per_degree)
                  /\ pc' = "loop"
                  /\ response_packet' = <<>>
                  /\ UNCHANGED nwrites
             ELSE /\ pc' = "loop"
                  /\ response_packet' = <<>>
                  /\ UNCHANGED <<az, el, nwrites>>

\* history: the raw fields of the last complete Set frame, after packet is read
LastSetAfter(packet) ==
    IF Len(packet) = 13 /\ packet[12] = 47
    THEN << (packet[2] - 48) * 1000 + (packet[3] - 48) * 100
                + (packet[4] - 48) * 10 + (packet[5] - 48),
            (packet[7] - 48) * 1000 + (packet[8] - 48) * 100
                + (packet[9] - 48) * 10 + (packet[10] - 48) >>
    ELSE last_set

\* lines 51-129: the read returns packet and the rest of the iteration runs
ReadReassembles(packet) ==
    LET joined == command_packet \o packet
        whole == IF nreads >= 1 /\ Len(command_packet) < PacketLen
                 THEN SubSeq(joined, 1, IF Len(joined) < PacketLen
                                        THEN Len(joined) ELSE PacketLen)
                 ELSE packet
    IN  /\ pc = "read"
        /\ command_packet' = packet
        /\ nreads' = nreads + 1
        /\ Serve(whole)
        /\ last_set' = LastSetAfter(packet)
        /\ prev_short' = (nreads >= 1 /\ Len(command_packet) < 13)
        /\ UNCHANGED <<ser, keep_running, pulses_per_degree, sent, stop_calls,
                       stop_mark>>

Read(packet) ==
    /\ pc = "read"
    /\ command_packet' = packet
    /\ nreads' = nreads + 1
    /\ Serve(packet)
    /\ last_set' = LastSetAfter(packet)
    /\ prev_short' = (nreads >= 1 /\ Len(command_packet) < 13)
    /\ UNCHANGED <<ser, keep_running, pulses_per_degree, sent, stop_calls, stop_mark>>

Next ==
    \/ \E opened \in BOOLEAN, ppd \in PulsesOptions : Construct(opened, ppd)
    \/ Stop
    \/ LoopTest
    \/ \E packet \in Reads : Read(packet)

Spec == Init /\ [][Next]_vars

\* The worker thread keeps running when it can (weak fairness of its loop
\* test).  The port is opened with timeout=None (line 38), so a read returns
\* only when bytes arrive, and nothing makes the host send any: reads are
\* not fair.
SpecLive == Init /\ [][Next]_vars /\ WF_vars(LoopTest)

\* the same session fed Set frames with ASCII digit fields only
NextAscii ==
    \/ \E opened \in BOOLEAN, ppd \in PulsesOptions : Construct(opened, ppd)
    \/ Stop
    \/ LoopTest
    \/ \E packet \in AsciiReads : Read(packet)

SpecAscii == Init /\ [][NextAscii]_vars

(***************************************************************************)
(* The host side of a Set command, for the round trip: the client encodes  *)
(* the angles (given in hundredths of a degree) as                         *)
(* int(ppd * (angle + 360)) in four ASCII digits.                          *)
(***************************************************************************)
EncodeField(angle, ppd) ==
    LET raw == (ppd * (angle + 100 * AngleOffset)) \div 100
    IN  <<AsciiZero + ((raw \div 1000) % 10), AsciiZero + ((raw \div 100) % 10),
          AsciiZero + ((raw \div 10) % 10), AsciiZero + (raw % 10)>>

EncodeSet(a, e, ppd) ==
    <<RespStart>> \o EncodeField(a, ppd) \o <<ppd>> \o EncodeField(e, ppd)
        \o <<ppd, CmdSet, RespEnd>>

\* angles the host asks for, in hundredths of a degree, all in [-360, 360):
\* whole degrees, halves, quarters and tenths
AngleInputs == {-36000, -35975, -50, 0, 10, 1230, 35975}

\* a running session with a host about to send Set(sent[1], sent[2])
InitRT ==
    /\ pc = "loop"
    /\ ser = "open"
    /\ keep_running = TRUE
    /\ az = 0
    /\ el = 0
    /\ pulses_per_degree \in PulsesOptions
    /\ command_packet = <<>>
    /\ response_packet = <<>>
    /\ nreads = 0
    /\ nwrites = 0
    /\ sent \in AngleInputs \X AngleInputs
    /\ last_set = <<>>
    /\ prev_short = FALSE
    /\ stop_calls = 0
    /\ stop_mark = <<>>

HostSet == Read(EncodeSet(sent[1], sent[2], pulses_per_degree))

NextRT ==
    \/ LoopTest
    \/ HostSet
    \/ Stop

SpecRT == InitRT /\ [][NextRT]_vars

(***************************************************************************)
(* Vocabulary of the properties.                                           *)
(***************************************************************************)
\* this step is one iteration of _run: a read returned and was processed
ReadStep == nreads' = nreads + 1

\* the packet that step read
Complete == Len(command_packet') = PacketLen
Short == Len(command_packet') < PacketLen
CommandByte == command_packet'[12]

NoWrite == nwrites' = nwrites /\ response_packet' = <<>>

\* d1*1000 + d2*100 + d3*10 + d4 of the four bytes from position i (1-based)
FieldValue(p, i) ==
    (p[i] - 48) * 1000 + (p[i + 1] - 48) * 100 + (p[i + 2] - 48) * 10 + (p[i + 3] - 48)

AsciiDigits(p, i) == \A k \in i..(i + 3) : p[k] \in 48..57

\* angle (tenths) is raw / ppd - 360 rounded to one decimal place: it is a
\* tenth nearest to that value
IsDecoded(angle, raw, ppd) ==
    Abs(ppd * 10 * angle - (100 * raw - 36000 * ppd)) <= 5 * ppd

\* angle (tenths) is original (hundredths) rounded to one decimal place
IsRounded(angle, original) == Abs(10 * angle - original) <= 5

\* C1: the service loop never leaves Running because of frame content: the
\* worker is never ended by an exception, and it is Stopped only after a stop
\* request.
C1_NeverSelfTerminates ==
    /\ pc # "raised"
    /\ (pc = "stopped" => ~keep_running)

\* C2 (as stated): for every ppd in {1,2,4} and every azimuth and elevation in
\* [-360, 360), after the worker processed the Set frame the host encoded from
\* them, the state holds the originals rounded to one decimal place.
C2_RoundTripEveryAngle ==
    (nreads >= 1 /\ pc \in {"loop", "stopped"}) =>
        /\ IsRounded(az, sent[1])
        /\ IsRounded(el, sent[2])

\* C2 (amended): the round trip holds for every azimuth and elevation in
\* [-360, 360) that is a whole multiple of 1/ppd degree.
C2_RoundTripOnGrid ==
    (nreads >= 1 /\ pc \in {"loop", "stopped"}) =>
        /\ ((sent[1] * pulses_per_degree) % 100 = 0 => IsRounded(az, sent[1]))
        /\ ((sent[2] * pulses_per_degree) % 100 = 0 => IsRounded(el, sent[2]))

\* C2 witness: the quarter-degree angles -359.75 and 359.75 made the round
\* trip at 4 pulses per degree.
C2_Witness ==
    /\ nreads >= 1 /\ pc = "loop"
    /\ pulses_per_degree = 4
    /\ sent = <<-35975, 35975>>
    /\ az = -3598 /\ el = 3598

\* C3: once the flag is cleared it stays cleared; at the first loop test after
\* that (the worker's next step, which is any step but a further call of
\* stop()) the loop exits to Stopped; and Stopped is terminal, with no further
\* read or write.
C3_StopTakesEffect ==
    [][ /\ (~keep_running => ~keep_running')
        /\ ((pc = "loop" /\ ~keep_running /\ stop_calls' = stop_calls)
                => pc' = "stopped")
        /\ (pc = "stopped" =>
               /\ pc' = "stopped"
               /\ UNCHANGED <<nreads, nwrites, command_packet, response_packet>>)
      ]_vars

\* C3 witness: the worker has stopped after having served two frames.
C3_Witness == pc = "stopped" /\ ~keep_running /\ nreads = 2 /\ nwrites = 1

\* C4: a read of fewer than 13 bytes never changes azimuth, elevation or
\* pulsesPerDegree and never causes a write.
C4_ShortReadNoEffect ==
    [][ (ReadStep /\ Short) => (UNCHANGED rotator /\ NoWrite) ]_vars

\* C4 witness: a 12-byte read with the Set code at offset 11 was dropped in a
\* session that had answered a frame before.
C4_Witness ==
    /\ pc = "loop" /\ nreads = 2 /\ nwrites = 1
    /\ Len(command_packet) = 12 /\ command_packet[12] = CmdSet
    /\ az = 0 /\ el = 0

\* C5: a complete frame with command byte 0x2F never causes a write.
C5_SetNeverAnswers ==
    [][ (ReadStep /\ Complete /\ CommandByte = CmdSet) => NoWrite ]_vars

\* C5 witness: a complete Set frame was processed after one response had been
\* written, and the count of writes is still one.
C5_Witness ==
    /\ pc = "loop" /\ nreads = 2 /\ nwrites = 1
    /\ Len(command_packet) = PacketLen /\ command_packet[12] = CmdSet

\* C6: a complete Stop or Status frame leaves azimuth, elevation and
\* pulsesPerDegree as they were.
C6_StatusKeepsState ==
    [][ (ReadStep /\ Complete /\ CommandByte \in {CmdStop, CmdStatus})
            => UNCHANGED rotator ]_vars

\* C6 witness: a Stop frame carrying other digit fields was answered in a
\* state set by an earlier Set frame.
C6_Witness ==
    /\ pc = "loop" /\ nwrites = 1
    /\ Len(command_packet) = PacketLen /\ command_packet[12] = CmdStop
    /\ SubSeq(command_packet, 2, 5) = F9999
    /\ az = 2 /\ el = -3600

\* C7: a complete frame with a command byte outside {0x0F, 0x1F, 0x2F} leaves
\* the state unchanged, causes no write, and the loop goes on.
C7_InvalidNoEffect ==
    [][ (ReadStep /\ Complete /\ CommandByte \notin {CmdStop, CmdStatus, CmdSet})
            => (UNCHANGED rotator /\ NoWrite /\ pc' = "loop") ]_vars

\* C7 witness: a frame with command byte 0xFF was dropped in a state set by
\* an earlier Set frame.
C7_Witness ==
    /\ pc = "loop" /\ nreads = 2 /\ nwrites = 0
    /\ Len(command_packet) = PacketLen /\ command_packet[12] = 255
    /\ SubSeq(command_packet, 2, 5) = F3600
    /\ az = 2 /\ el = -3600

\* C8: with azimuth = elevation = 0.0 and pulsesPerDegree = 1, a Stop or
\* Status frame makes the worker write exactly
\* [0x57, 3,6,0,0, 1, 3,6,0,0, 1, 0x20].
C8_ZeroResponse ==
    [][ (/\ ReadStep /\ Complete /\ CommandByte \in {CmdStop, CmdStatus}
         /\ az = 0 /\ el = 0 /\ pulses_per_degree = 1)
            => /\ response_packet' = <<87, 3, 6, 0, 0, 1, 3, 6, 0, 0, 1, 32>>
               /\ nwrites' = nwrites + 1 ]_vars

\* C8 witness: the first frame of a session with 1 pulse per degree was a
\* Status frame and was answered.
C8_Witness ==
    /\ pc = "loop" /\ nreads = 1 /\ nwrites = 1
    /\ pulses_per_degree = 1 /\ az = 0 /\ el = 0
    /\ command_packet[12] = CmdStatus
    /\ Len(response_packet) = 12

\* the decoding rule of C9, without its example
SetDecodes ==
    (/\ ReadStep /\ Complete /\ CommandByte = CmdSet
     /\ AsciiDigits(command_packet', 2) /\ AsciiDigits(command_packet', 7))
        => /\ IsDecoded(az', FieldValue(command_packet', 2), pulses_per_degree)
           /\ IsDecoded(el', FieldValue(command_packet', 7), pulses_per_degree)

\* the example of C9: a Set frame with H = V = raw at 1 pulse per degree
\* gives azimuth = elevation = 0.0
SetGivesZero(raw) ==
    (/\ ReadStep /\ Complete /\ CommandByte = CmdSet
     /\ FieldValue(command_packet', 2) = raw
     /\ FieldValue(command_packet', 7) = raw
     /\ pulses_per_degree = 1)
        => (az' = 0 /\ el' = 0)

\* C9 (as stated): a Set frame with ASCII digit fields H and V sets
\* azimuth = H/ppd - 360 and elevation = V/ppd - 360, rounded to one decimal
\* place; in particular H = V = 3600 with ppd = 1 gives 0.0 and 0.0.
C9_SetDecodingAsStated == [][ SetDecodes /\ SetGivesZero(3600) ]_vars

\* C9 (amended): the same rule; in particular H = V = 360 (digits 0,3,6,0)
\* with ppd = 1 gives 0.0 and 0.0.
C9_SetDecoding == [][ SetDecodes /\ SetGivesZero(360) ]_vars

\* C9 witness: a Set frame with H = V = 0360 brought a session with 1 pulse
\* per degree back from another position to 0.0, 0.0.
C9_Witness ==
    /\ pc = "loop" /\ nreads = 3 /\ nwrites = 1
    /\ pulses_per_degree = 1
    /\ Len(command_packet) = PacketLen /\ command_packet[12] = CmdSet
    /\ SubSeq(command_packet, 2, 5) = F0360
    /\ SubSeq(command_packet, 7, 10) = F0360
    /\ az = 0 /\ el = 0
    /\ response_packet = <<>>

\* the state of a session whose port could not be opened
C10_OpenFailureInv ==
    (pc # "new" /\ ser = "none") =>
        /\ pc = "failed"
        /\ nreads = 0 /\ nwrites = 0
        /\ az = 0 /\ el = 0 /\ pulses_per_degree = 0
        /\ command_packet = <<>> /\ response_packet = <<>>

\* C10: when the port cannot be opened the constructor fails to its caller
\* and the worker never starts: no read, no write, no change of state, ever.
C10_OpenFailure ==
    /\ []C10_OpenFailureInv
    /\ [][ pc = "failed" => UNCHANGED vars ]_vars

\* C10 witness: the constructor has failed.
C10_Witness == pc = "failed" /\ ser = "none" /\ keep_running

(***************************************************************************)
(* Vocabulary of the response properties.                                  *)
(***************************************************************************)
\* this step wrote a response
Answered == nwrites' = nwrites + 1

\* the four bytes of the response from position i (1-based) are the hundreds,
\* tens, units and tenths digits of angle + 360 (angle in tenths)
AxisExact(i, angle) ==
    /\ \A k \in i..(i + 3) : response_packet'[k] \in 0..9
    /\ 1000 * response_packet'[i] + 100 * response_packet'[i + 1]
         + 10 * response_packet'[i + 2] + response_packet'[i + 3] = angle + 3600

\* angle + 360 lies in [0, 1000)
FourDigits(angle) == 0 <= angle + 3600 /\ angle + 3600 < 10000

\* C12 (as stated): in every reachable state the response to a Stop or Status
\* frame carries at offsets 1-4 and 6-9 the hundreds, tens, units and tenths
\* digits of azimuth+360 and elevation+360.
C12_DigitsAsStated ==
    [][ (ReadStep /\ Answered) => (AxisExact(2, az) /\ AxisExact(7, el)) ]_vars

\* C12 (amended): every response written carries, for each axis whose
\* angle+360 lies in [0, 1000), the hundreds, tens, units and tenths digits
\* of angle+360 at that axis's offsets.
C12_DigitsInRange ==
    [][ (ReadStep /\ Answered) =>
            /\ (FourDigits(az) => AxisExact(2, az))
            /\ (FourDigits(el) => AxisExact(7, el)) ]_vars

\* C12 witness: azimuth 0.2 and elevation -360.0, set at 4 pulses per degree,
\* were reported as 3,6,0,2 and 0,0,0,0.
C12_Witness ==
    /\ pc = "loop" /\ nwrites = 1
    /\ pulses_per_degree = 4 /\ az = 2 /\ el = -3600
    /\ response_packet = <<87, 3, 6, 0, 2, 4, 0, 0, 0, 0, 4, 32>>

\* the state holds what the last complete Set frame carried
StateIsLastSet ==
    IF last_set = <<>>
    THEN az = 0 /\ el = 0
    ELSE /\ IsDecoded(az, last_set[1], pulses_per_degree)
         /\ IsDecoded(el, last_set[2], pulses_per_degree)

\* C13: every response reports the angles decoded from the last complete Set
\* frame read before it (0.0, 0.0 when there is none), whatever short,
\* invalid, Stop or Status frames were read in between.
C13_ReportsLastSet ==
    [][ (ReadStep /\ Answered) =>
            /\ StateIsLastSet
            /\ response_packet' = ResponsePacket(az, el, pulses_per_degree) ]_vars

\* C13 witness: of three reads one was a Set frame with H = 1441, V = 0000 and
\* the last one a Status frame, answered with that position.
C13_Witness ==
    /\ pc = "loop" /\ nreads = 3 /\ nwrites = 1
    /\ pulses_per_degree = 4 /\ last_set = <<1441, 0>>
    /\ Len(command_packet) = PacketLen /\ command_packet[12] = CmdStatus
    /\ response_packet = <<87, 3, 6, 0, 2, 4, 0, 0, 0, 0, 4, 32>>

\* C14: each iteration makes at most one write; every complete Stop or Status
\* frame is answered by exactly one write before the next read, and no other
\* read is answered.
C14_OneWritePerStatus ==
    [][ ReadStep =>
            IF Complete /\ CommandByte \in {CmdStop, CmdStatus}
            THEN Answered /\ pc' = "loop"
            ELSE nwrites' = nwrites ]_vars

\* a response is a well-formed frame carrying the session's resolution
ResponseWellFormed ==
    response_packet # <<>> =>
        /\ Len(response_packet) = 12
        /\ response_packet[1] = 87 /\ response_packet[12] = 32
        /\ response_packet[6] = pulses_per_degree
        /\ response_packet[11] = pulses_per_degree

\* C16: every response is 12 bytes, 0x57 first and 0x20 last, with the
\* resolution given at construction at offsets 5 and 10; the resolution never
\* changes after construction, whatever resolution bytes the frames carry.
C16_ResponseFrame ==
    /\ []ResponseWellFormed
    /\ [][ pc # "new" => pulses_per_degree' = pulses_per_degree ]_vars

\* C16 witness: a frame with resolution bytes 255 and 47 was answered with
\* resolution 4.
C16_Witness ==
    /\ pc = "loop" /\ nwrites = 1 /\ pulses_per_degree = 4
    /\ Len(command_packet) = PacketLen
    /\ command_packet[6] = 255 /\ command_packet[11] = 47
    /\ response_packet[6] = 4 /\ response_packet[11] = 4

\* C19: when every complete Set frame carries ASCII digits, azimuth and
\* elevation stay in [-360, 9639] and building a response never fails: the
\* worker never raises and every response byte is in 0..255.
C19_AsciiRange ==
    /\ az \in -3600..96390
    /\ el \in -3600..96390
    /\ pc # "raised"
    /\ \A i \in 1..Len(response_packet) : response_packet[i] \in 0..255

\* C19 witness: azimuth 9639.0 (H = 9999 at 1 pulse per degree) was reported.
C19_Witness ==
    /\ pc = "loop" /\ az = 96390 /\ el = 0 /\ nwrites = 1
    /\ Len(response_packet) = 12

\* the frame with its start marker, resolution bytes and terminator replaced
\* by those of a well-formed frame
Canonical(p) == [p EXCEPT ![1] = 87, ![6] = 1, ![11] = 1, ![13] = 32]

\* C20: the effect of a complete frame (next angles, response, writes, and
\* whether the loop goes on) is that of the same frame with a well-formed
\* start marker, resolution bytes and terminator.
C20_OnlyDecodedBytes ==
    [][ (ReadStep /\ Complete) => Serve(Canonical(command_packet')) ]_vars

\* C20 witness: a Set frame with start marker 0x00, resolution bytes 0xFF and
\* 0x2F and terminator 0x1F was accepted.
C20_Witness ==
    /\ pc = "loop" /\ nreads = 1
    /\ command_packet = <<0, 49, 52, 52, 49, 255, 48, 48, 48, 48, 47, 47, 31>>
    /\ pulses_per_degree = 4 /\ az = 2 /\ el = -3600

\* C11: stop() is idempotent and touches only the run flag: every call
\* leaves the flag cleared and everything else of the session as it was, so a
\* call after the first changes nothing at all.
C11_StopIdempotent ==
    [][ (stop_calls' = stop_calls + 1) =>
            /\ keep_running' = FALSE
            /\ (stop_calls >= 1 => keep_running = FALSE)
            /\ UNCHANGED <<pc, ser, az, el, pulses_per_degree, command_packet,
                           response_packet, nreads, nwrites>> ]_vars

\* C11 witness: stop() was called twice while the worker was blocked in a
\* read, in a state set by a Set frame.
C11_Witness ==
    /\ stop_calls = 2 /\ pc = "read" /\ ~keep_running
    /\ nreads = 1 /\ az = 2 /\ el = -3600

\* C15: once a stop request has been made the worker eventually reaches
\* Stopped, also when no byte arrives after the request.
C15_EventuallyStopped == (~keep_running) ~> (pc = "stopped")

\* the effect of the step's read is that of the bytes this read returned
OwnEffect ==
    IF Short
    THEN UNCHANGED rotator /\ NoWrite
    ELSE IF CommandByte = CmdSet
    THEN /\ IsDecoded(az', FieldValue(command_packet', 2), pulses_per_degree)
         /\ IsDecoded(el', FieldValue(command_packet', 7), pulses_per_degree)
         /\ NoWrite
    ELSE /\ UNCHANGED rotator
         /\ (Answered =>
                /\ CommandByte \in {CmdStop, CmdStatus}
                /\ response_packet' = ResponsePacket(az, el, pulses_per_degree))
         /\ (CommandByte \notin {CmdStop, CmdStatus} => NoWrite)

\* C17: a torn frame is dropped and never reassembled: the iteration after a
\* short read acts on the bytes of its own read only.
C17_NoReassembly ==
    [][ (ReadStep /\ nreads >= 1 /\ Len(command_packet) < PacketLen)
            => OwnEffect ]_vars

\* C17 witness: right after a short read, a complete Set frame with H = 9999,
\* V = 0360 was decoded from its own bytes.
C17_Witness ==
    /\ pc = "loop" /\ nreads = 2 /\ prev_short
    /\ pulses_per_degree = 1
    /\ Len(command_packet) = PacketLen /\ command_packet[12] = CmdSet
    /\ SubSeq(command_packet, 2, 5) = F9999
    /\ az = 96390 /\ el = 0

\* C18: after stop() has cleared the flag the worker completes at most one
\* more read and makes at most one more write.
C18_AtMostOneMore ==
    stop_mark # <<>> =>
        /\ nreads <= stop_mark[1] + 1
        /\ nwrites <= stop_mark[2] + 1

\* C18 witness: stop() was called during the first read; the Status frame
\* that read returned was still answered, and then the worker stopped.
C18_Witness ==
    /\ pc = "stopped" /\ stop_mark = <<0, 0>>
    /\ nreads = 1 /\ nwrites = 1
    /\ command_packet[12] = CmdStatus

====
